---------------------------- MODULE Spec2Model ----------------------------
(***************************************************************************)
(* A model of humor/basic_lstm.py: corpus tokenisation, vocabulary         *)
(* building (build_dataset), pretrained-embedding substitution, the        *)
(* checkpoint-on-improvement training loop of run() and the greedy         *)
(* decoder generate_sentence().                                            *)
(*                                                                         *)
(* Strings are sequences of one-character strings.  A Python dict is a     *)
(* sequence of <<key, value>> pairs with distinct keys, in insertion       *)
(* order (the order Python 3.7+ iterates it in).  The network is a source  *)
(* of nondeterministic predictions and losses; its parameters are          *)
(* represented by the number of optimizer updates applied to them since    *)
(* random initialisation.                                                  *)
(***************************************************************************)
EXTENDS Integers, Sequences, FiniteSets, TLC

\* ------------------------------------------------------------------------
\* Program constants and the bounds of the model
\* ------------------------------------------------------------------------

N_INPUT == 3

\* Scaled-down stand-ins for EPOCHS = 100, BATCH_SIZE = 1000 and
\* GENERATE_INCREMENT = 10000.
EPOCHS == 2
BATCH_SIZE == 2
GENERATE_INCREMENT == 2

\* Longest corpus file (in characters) of the data-preparation runs.
MaxFileLen == 4
\* Longest token list handed to build_dataset on its own.
MaxWords == 4
\* Largest per-example loss, in float32 steps.
MaxLossSteps == 2
\* How many times the training process may be killed and started again.
MaxCrashes == 1

START_TOKEN == <<"S">>
END_TOKEN == <<"E">>
UNKNOWN_TOKEN == <<"U">>

\* ------------------------------------------------------------------------
\* Sequences, strings
\* ------------------------------------------------------------------------

Range(s) == {s[k] : k \in 1..Len(s)}

BSeq(S, n) == UNION {[1..k -> S] : k \in 0..n}

Max(a, b) == IF a >= b THEN a ELSE b

\* str.split(' '): cut at every single space; empty pieces are kept.
RECURSIVE SplitAcc(_, _, _)
SplitAcc(s, cur, acc) ==
    IF s = <<>> THEN Append(acc, cur)
    ELSE IF Head(s) = " " THEN SplitAcc(Tail(s), <<>>, Append(acc, cur))
    ELSE SplitAcc(Tail(s), Append(cur, Head(s)), acc)

Split(s) == SplitAcc(s, <<>>, <<>>)

\* Iterating a text file: each line keeps its trailing newline; the last
\* line has none when the file does not end with one.
RECURSIVE FileLinesAcc(_, _, _)
FileLinesAcc(s, cur, acc) ==
    IF s = <<>> THEN (IF cur = <<>> THEN acc ELSE Append(acc, cur))
    ELSE IF Head(s) = "\n" THEN FileLinesAcc(Tail(s), <<>>, Append(acc, Append(cur, "\n")))
    ELSE FileLinesAcc(Tail(s), Append(cur, Head(s)), acc)

FileLines(s) == FileLinesAcc(s, <<>>, <<>>)

\* ------------------------------------------------------------------------
\* Python dicts
\* ------------------------------------------------------------------------

DictKeys(d) == [k \in 1..Len(d) |-> d[k][1]]
DictValues(d) == [k \in 1..Len(d) |-> d[k][2]]
DictHas(d, key) == \E k \in 1..Len(d) : d[k][1] = key
DictGet(d, key) == d[CHOOSE k \in 1..Len(d) : d[k][1] = key][2]
DictSet(d, key, val) ==
    IF DictHas(d, key)
    THEN [k \in 1..Len(d) |-> IF d[k][1] = key THEN <<key, val>> ELSE d[k]]
    ELSE Append(d, <<key, val>>)

\* dict(zip(a, b))
RECURSIVE DictZip(_, _, _)
DictZip(a, b, d) ==
    IF a = <<>> \/ b = <<>> THEN d
    ELSE DictZip(Tail(a), Tail(b), DictSet(d, Head(a), Head(b)))

\* ------------------------------------------------------------------------
\* build_dataset
\* ------------------------------------------------------------------------

\* collections.Counter(words): word -> count, in first-encountered order.
RECURSIVE Counter(_, _)
Counter(ws, d) ==
    IF ws = <<>> THEN d
    ELSE Counter(Tail(ws),
                 DictSet(d, Head(ws), IF DictHas(d, Head(ws)) THEN DictGet(d, Head(ws)) + 1 ELSE 1))

\* Where a stable descending sort puts item: after every entry that counts
\* at least as much.
RECURSIVE InsertDesc(_, _)
InsertDesc(sorted, item) ==
    IF sorted = <<>> THEN <<item>>
    ELSE IF Head(sorted)[2] >= item[2] THEN <<Head(sorted)>> \o InsertDesc(Tail(sorted), item)
    ELSE <<item>> \o sorted

\* The same, but an item overtakes the entries it ties with.
RECURSIVE InsertDescUnstable(_, _)
InsertDescUnstable(sorted, item) ==
    IF sorted = <<>> THEN <<item>>
    ELSE IF Head(sorted)[2] > item[2] THEN <<Head(sorted)>> \o InsertDescUnstable(Tail(sorted), item)
    ELSE <<item>> \o sorted

RECURSIVE SortDesc(_, _)
SortDesc(items, sorted) ==
    IF items = <<>> THEN sorted
    ELSE SortDesc(Tail(items), InsertDesc(sorted, Head(items)))

RECURSIVE SortDescUnstable(_, _)
SortDescUnstable(items, sorted) ==
    IF items = <<>> THEN sorted
    ELSE SortDescUnstable(Tail(items), InsertDescUnstable(sorted, Head(items)))

MostCommonUnstable(counter) == SortDescUnstable(counter, <<>>)

\* Counter.most_common(): sorted(items, key=count, reverse=True), which is
\* stable.
MostCommon(counter) == SortDesc(counter, <<>>)

NextIndexFromOne(dictionary) == Len(dictionary) + 1

\* len(dictionary), the index the next new word gets.
NextIndex(dictionary) == Len(dictionary)

RECURSIVE AssignIndices(_, _)
AssignIndices(count, dictionary) ==
    IF count = <<>> THEN dictionary
    ELSE AssignIndices(Tail(count), DictSet(dictionary, Head(count)[1], NextIndex(dictionary)))

build_dataset(ws) ==
    LET count == MostCommon(Counter(ws, <<>>))
        dict == AssignIndices(count, <<>>)
        reverse == DictZip(DictValues(dict), DictKeys(dict), <<>>)
    IN  <<dict, reverse>>


\* ------------------------------------------------------------------------
\* State
\* ------------------------------------------------------------------------

VARIABLES
    corpus,              \* the characters of the corpus file
    embedding_file,      \* [set, pickle]: whether -e was given, the pickled word -> vector dict
    test,                \* the -t flag
    words, sentence_length,
    dictionary, reverse_dictionary, start_key, end_key,
    vocab_size, num_examples, num_outputs,
    index_embeddings, embeddings_list, embedding_order,
    params,              \* optimizer updates applied to the session's parameters
    min_loss,            \* the tf.Variable min_loss of the session
    ckpt,                \* the checkpoint at save_model_path
    final_ckpt,          \* the checkpoint at final_model_path
    symbols_in_keys, rand_key, i, pred_output, embedding_index, pred_index,
    output,              \* the sentence last printed
    batch_counter, total_loss, current_loss, epoch, offset,
    saved, final_saved, generated,   \* what the latest loop iteration wrote and printed
    crashes,
    pc

inVars == <<corpus, embedding_file, test>>
dataVars == <<words, sentence_length>>
vocabVars == <<dictionary, reverse_dictionary, start_key, end_key, vocab_size, num_examples, num_outputs>>
embVars == <<index_embeddings, embeddings_list, embedding_order>>
sessVars == <<params, min_loss>>
diskVars == <<ckpt, final_ckpt>>
genVars == <<symbols_in_keys, rand_key, i, pred_output, embedding_index, pred_index, output>>
trainVars == <<batch_counter, total_loss, current_loss, epoch, offset, saved, final_saved, generated>>

vars == <<inVars, dataVars, vocabVars, embVars, sessVars, diskVars, genVars, trainVars, crashes, pc>>

\* float('inf'), above every loss of the model.
Inf == 1000000

NoCheckpoint == [exists |-> FALSE, params |-> 0, min_loss |-> Inf]

NoFile == [set |-> FALSE, pickle |-> <<>>]

\* The state of a process that has not run yet.
Fresh(c, ef, t, ws, start) ==
    /\ corpus = c /\ embedding_file = ef /\ test = t
    /\ words = ws /\ sentence_length = 1
    /\ dictionary = <<>> /\ reverse_dictionary = <<>>
    /\ start_key = 0 /\ end_key = 0
    /\ vocab_size = 0 /\ num_examples = 0 /\ num_outputs = 0
    /\ index_embeddings = <<>> /\ embeddings_list = <<>> /\ embedding_order = <<>>
    /\ params = 0 /\ min_loss = Inf
    /\ ckpt = NoCheckpoint /\ final_ckpt = NoCheckpoint
    /\ symbols_in_keys = <<>> /\ rand_key = 0 /\ i = 0
    /\ pred_output = <<>> /\ embedding_index = 0 /\ pred_index = 0
    /\ output = <<>>
    /\ batch_counter = 0 /\ total_loss = 0 /\ current_loss = 0
    /\ epoch = 0 /\ offset = 0
    /\ saved = FALSE /\ final_saved = FALSE /\ generated = FALSE
    /\ crashes = 0
    /\ pc = start

\* ------------------------------------------------------------------------
\* Reading the corpus (run, lines 79-95)
\* ------------------------------------------------------------------------

RECURSIVE Repeat(_, _)
Repeat(s, n) == IF n = 0 THEN <<>> ELSE s \o Repeat(s, n - 1)

start_tokens == Repeat(START_TOKEN \o <<" ">>, N_INPUT)

StripNewline(line) ==
    IF line[Len(line)] = "\n" THEN SubSeq(line, 1, Len(line) - 1) ELSE line

PunchLineNoEnd(line) == start_tokens \o line \o <<" ">>

\* What one non-blank line adds to punch_lines.
PunchLine(line) == start_tokens \o line \o <<" ">> \o END_TOKEN \o <<" ">>

RECURSIVE ReadLines(_, _, _)
ReadLines(lines, punch_lines, sl) ==
    IF lines = <<>> THEN <<punch_lines, sl>>
    ELSE LET line == StripNewline(Head(lines))
         IN  IF line = <<>> THEN ReadLines(Tail(lines), punch_lines, sl)
             ELSE ReadLines(Tail(lines), punch_lines \o PunchLine(line), Max(sl, Len(line)))

ReadCorpus ==
    /\ pc = "read"
    /\ LET r == ReadLines(FileLines(corpus), <<>>, 1)
       IN  /\ words' = Split(r[1])
           /\ sentence_length' = r[2]
    /\ pc' = "build"
    /\ UNCHANGED <<inVars, vocabVars, embVars, sessVars, diskVars, genVars, trainVars, crashes>>

\* ------------------------------------------------------------------------
\* The vocabulary (run, lines 97-104)
\* ------------------------------------------------------------------------

BuildVocab ==
    /\ pc = "build"
    /\ LET r == build_dataset(words)
       IN  /\ dictionary' = r[1]
           /\ reverse_dictionary' = r[2]
           /\ IF DictHas(r[1], END_TOKEN) /\ DictHas(r[1], START_TOKEN)
              THEN /\ end_key' = DictGet(r[1], END_TOKEN)
                   /\ start_key' = DictGet(r[1], START_TOKEN)
                   /\ vocab_size' = Len(r[1])
                   /\ num_examples' = Len(words) - N_INPUT
                   /\ num_outputs' = Len(r[1])
                   /\ pc' = "embed"
              ELSE \* KeyError
                   /\ UNCHANGED <<start_key, end_key, vocab_size, num_examples, num_outputs>>
                   /\ pc' = "fatal"
    /\ UNCHANGED <<inVars, dataVars, embVars, sessVars, diskVars, genVars, trainVars, crashes>>

\* build_dataset called on its own with any list of tokens.
BuildDataset ==
    /\ pc = "call"
    /\ LET r == build_dataset(words)
       IN  /\ dictionary' = r[1]
           /\ reverse_dictionary' = r[2]
    /\ pc' = "returned"
    /\ UNCHANGED <<inVars, dataVars, start_key, end_key, vocab_size, num_examples, num_outputs,
                   embVars, sessVars, diskVars, genVars, trainVars, crashes>>

\* ------------------------------------------------------------------------
\* Pretrained embeddings (run, lines 106-133)
\* ------------------------------------------------------------------------

EmbeddingOfKnownOnly(embeddings_dict, word) ==
    IF DictHas(embeddings_dict, word) THEN <<DictGet(embeddings_dict, word)>> ELSE <<>>

\* The vector(s) index_embeddings gets for word: its own, or the unknown one.
EmbeddingOf(embeddings_dict, word) ==
    IF DictHas(embeddings_dict, word)
    THEN <<DictGet(embeddings_dict, word)>>
    ELSE <<DictGet(embeddings_dict, UNKNOWN_TOKEN)>>

RECURSIVE IndexEmbeddings(_, _, _)
IndexEmbeddings(items, embeddings_dict, acc) ==
    IF items = <<>> THEN acc
    ELSE LET e == EmbeddingOf(embeddings_dict, Head(items)[1])
         IN  IndexEmbeddings(Tail(items), embeddings_dict,
                             IF e = <<>> THEN acc ELSE DictSet(acc, Head(items)[2], e[1]))

\* embeddings_list and embedding_order: the table's rows whose word is in the
\* vocabulary, in table order, and row number -> word index.
RECURSIVE EmbeddingRows(_, _, _, _)
EmbeddingRows(items, dict, list, order) ==
    IF items = <<>> THEN <<list, order>>
    ELSE IF DictHas(dict, Head(items)[1])
         THEN EmbeddingRows(Tail(items), dict, Append(list, Head(items)[2]),
                            DictSet(order, Len(order), DictGet(dict, Head(items)[1])))
         ELSE EmbeddingRows(Tail(items), dict, list, order)

LoadEmbeddings ==
    /\ pc = "embed"
    /\ IF ~embedding_file.set
       THEN /\ UNCHANGED <<embVars, num_outputs>>
            /\ pc' = "session"
       ELSE LET embeddings_dict == embedding_file.pickle
            IN  IF ~DictHas(embeddings_dict, UNKNOWN_TOKEN)
                THEN \* KeyError
                     /\ UNCHANGED <<embVars, num_outputs>>
                     /\ pc' = "fatal"
                ELSE LET rows == EmbeddingRows(embeddings_dict, dictionary, <<>>, <<>>)
                     IN  /\ index_embeddings' = IndexEmbeddings(dictionary, embeddings_dict, <<>>)
                         /\ embeddings_list' = rows[1]
                         /\ embedding_order' = rows[2]
                         /\ num_outputs' = Len(DictGet(embeddings_dict, UNKNOWN_TOKEN))
                         /\ pc' = "session"
    /\ UNCHANGED <<inVars, dataVars, dictionary, reverse_dictionary, start_key, end_key,
                   vocab_size, num_examples, sessVars, diskVars, genVars, trainVars, crashes>>

\* ------------------------------------------------------------------------
\* Inputs
\* ------------------------------------------------------------------------

FileChars == {"a", " ", "\n"}

BuildTokens == {<<"a">>, <<"b">>, <<"c">>}

Vecs == {<<0, 0>>, <<0, 1>>, <<1, 0>>, <<1, 1>>}

TableWords == {UNKNOWN_TOKEN, <<"a">>, <<"a", "a">>}

\* The vectors of the tables of the generation runs.
TableVecs == {<<0, 0>>, <<1, 1>>}

\* The pickled tables of at most n words with vectors from V.
Tables(n, V) ==
    {t \in BSeq(TableWords \X V, n) :
        \A j, k \in 1..Len(t) : j # k => t[j][1] # t[k][1]}

EmbeddingFiles(n, V) == {NoFile} \cup {[set |-> TRUE, pickle |-> t] : t \in Tables(n, V)}

\* ------------------------------------------------------------------------
\* The session (run, lines 153-166 and 215-221)
\* ------------------------------------------------------------------------

RestoreParamsOnly(c) ==
    IF c.exists THEN [params |-> c.params, min_loss |-> Inf]
    ELSE [params |-> 0, min_loss |-> Inf]

\* sess.run(init), then saver.restore(sess, save_model_path) when the
\* checkpoint is there: the saver holds the parameters and min_loss.
Restore(c) ==
    IF c.exists THEN [params |-> c.params, min_loss |-> c.min_loss]
    ELSE [params |-> 0, min_loss |-> Inf]

StartSession ==
    /\ pc = "session"
    /\ params' = Restore(ckpt).params
    /\ min_loss' = Restore(ckpt).min_loss
    /\ IF test
       THEN /\ pc' = "gen_seed"
            /\ UNCHANGED trainVars
       ELSE /\ pc' = "train"
            /\ batch_counter' = 0
            /\ total_loss' = 0
            /\ epoch' = 0
            /\ offset' = 0
            /\ UNCHANGED <<current_loss, saved, final_saved, generated>>
    /\ UNCHANGED <<inVars, dataVars, vocabVars, embVars, diskVars, genVars, crashes>>

\* ------------------------------------------------------------------------
\* generate_sentence (run, lines 170-197) and convert_indices_to_sentence
\* ------------------------------------------------------------------------

\* np.argmin / argmax: the first position (from 0) of the least / greatest entry.
ArgMin(v) == (CHOOSE k \in 1..Len(v) :
                 /\ \A j \in 1..Len(v) : v[k] <= v[j]
                 /\ \A j \in 1..(k - 1) : v[j] > v[k]) - 1

ArgMax(v) == (CHOOSE k \in 1..Len(v) :
                 /\ \A j \in 1..Len(v) : v[k] >= v[j]
                 /\ \A j \in 1..(k - 1) : v[j] < v[k]) - 1

RECURSIVE SumSeq(_)
SumSeq(v) == IF v = <<>> THEN 0 ELSE Head(v) + SumSeq(Tail(v))

Square(x) == x * x

\* np.linalg.norm(embeddings_list - pred_output, axis=0), squared: one entry
\* per column (embedding dimension), summed over the rows.
NormAxis0(list, pred) ==
    [col \in 1..Len(pred) |->
        SumSeq([row \in 1..Len(list) |-> Square(list[row][col] - pred[col])])]

\* The same along axis 1: one entry per row, its squared distance to pred.
NormAxis1(list, pred) ==
    [row \in 1..Len(list) |->
        SumSeq([col \in 1..Len(pred) |-> Square(list[row][col] - pred[col])])]

NeverBreak(index) == FALSE

\* if pred_index == end_key: break
BreakOnEnd(index) == index = end_key

\* One pass of the decoding loop with loop index k on network output pred.
GenIter(symbols, k, pred) ==
    LET keys == SubSeq(symbols, k + 1, Len(symbols))
        raise == [status |-> "raise", embedding_index |-> embedding_index,
                  pred_index |-> pred_index, symbols |-> symbols]
        finish(ei, pi) ==
            IF BreakOnEnd(pi)
            THEN [status |-> "break", embedding_index |-> ei, pred_index |-> pi,
                  symbols |-> symbols]
            ELSE [status |-> "append", embedding_index |-> ei, pred_index |-> pi,
                  symbols |-> Append(symbols, pi)]
    IN  IF Len(keys) = 0 \/ Len(keys) % N_INPUT # 0 THEN raise
        ELSE IF embedding_file.set
        THEN IF Len(embeddings_list) = 0 THEN raise
             ELSE LET ei == ArgMin(NormAxis0(embeddings_list, pred))
                  IN  IF DictHas(embedding_order, ei)
                      THEN finish(ei, DictGet(embedding_order, ei))
                      ELSE [raise EXCEPT !.embedding_index = ei]
        ELSE finish(embedding_index, ArgMax(pred))

OneHot(n, k) == [j \in 1..n |-> IF j = k THEN 1 ELSE 0]

\* What sess.run(pred) may return: any vector of the embedding space, or
\* logits with any index as their arg max.
Predictions ==
    IF embedding_file.set THEN Vecs
    ELSE {OneHot(num_outputs, k) : k \in 1..num_outputs}

RECURSIVE convert_indices_to_sentence_acc(_, _)
convert_indices_to_sentence_acc(symbols, sentence) ==
    IF symbols = <<>> THEN sentence
    ELSE convert_indices_to_sentence_acc(Tail(symbols),
             IF Head(symbols) # start_key
             THEN sentence \o DictGet(reverse_dictionary, Head(symbols)) \o <<" ">>
             ELSE sentence)

convert_indices_to_sentence(symbols) ==
    LET sentence == convert_indices_to_sentence_acc(symbols, <<>>)
    IN  SubSeq(sentence, 1, Len(sentence) - 1)

\* The keys that end the rejection loop of lines 177-179.
RandomKeys == {k \in 0..(vocab_size - 1) : k # start_key /\ k # end_key}

RECURSIVE GenLoop(_, _, _)
GenLoop(symbols, k, preds) ==
    IF k >= sentence_length THEN [raised |-> FALSE, symbols |-> symbols]
    ELSE LET r == GenIter(symbols, k, preds[k + 1])
         IN  CASE r.status = "raise" -> [raised |-> TRUE, symbols |-> symbols]
               [] r.status = "break" -> [raised |-> FALSE, symbols |-> symbols]
               [] OTHER -> GenLoop(r.symbols, k + 1, preds)

\* A whole call, with the random key rk and one network output per pass.
generate_sentence(rk, preds) ==
    GenLoop([k \in 1..(N_INPUT - 1) |-> start_key] \o <<rk>>, 0, preds)

\* The same call in steps, as run() makes it in test mode.  i counts the
\* passes of the decoding loop made so far.
GenSeed ==
    /\ pc = "gen_seed"
    /\ symbols_in_keys' = [k \in 1..(N_INPUT - 1) |-> start_key]
    /\ rand_key' = start_key
    /\ i' = 0
    /\ pc' = "gen_rand"
    /\ UNCHANGED <<inVars, dataVars, vocabVars, embVars, sessVars, diskVars,
                   pred_output, embedding_index, pred_index, output, trainVars, crashes>>

GenRand ==
    /\ pc = "gen_rand"
    /\ IF rand_key = start_key \/ rand_key = end_key
       THEN /\ rand_key' \in 0..(vocab_size - 1)
            /\ UNCHANGED <<symbols_in_keys, pc>>
       ELSE /\ symbols_in_keys' = Append(symbols_in_keys, rand_key)
            /\ pc' = "gen_loop"
            /\ UNCHANGED rand_key
    /\ UNCHANGED <<inVars, dataVars, vocabVars, embVars, sessVars, diskVars,
                   i, pred_output, embedding_index, pred_index, output, trainVars, crashes>>

GenStep ==
    /\ pc = "gen_loop"
    /\ i < sentence_length
    /\ \E pred \in Predictions :
        LET r == GenIter(symbols_in_keys, i, pred)
        IN  /\ pred_output' = pred
            /\ embedding_index' = r.embedding_index
            /\ pred_index' = r.pred_index
            /\ symbols_in_keys' = r.symbols
            /\ i' = i + 1
            /\ pc' = CASE r.status = "raise" -> "fatal"
                       [] r.status = "break" -> "gen_print"
                       [] OTHER -> IF i + 1 < sentence_length THEN "gen_loop" ELSE "gen_print"
    /\ UNCHANGED <<inVars, dataVars, vocabVars, embVars, sessVars, diskVars,
                   rand_key, output, trainVars, crashes>>

GenPrint ==
    /\ pc = "gen_print"
    /\ output' = convert_indices_to_sentence(symbols_in_keys)
    /\ pc' = "done"
    /\ UNCHANGED <<inVars, dataVars, vocabVars, embVars, sessVars, diskVars,
                   symbols_in_keys, rand_key, i, pred_output, embedding_index, pred_index,
                   trainVars, crashes>>

\* ------------------------------------------------------------------------
\* The training loop (run, lines 218-251)
\* ------------------------------------------------------------------------

\* Losses are counted in units of which BATCH_SIZE make one float32 step, so
\* that the float64 mean total_loss / BATCH_SIZE is exact in the model: the
\* per-example loss sess.run returns is a float32, total_loss and current_loss
\* are float64, and min_loss is a float32 variable.
F32Step == BATCH_SIZE

LossValues == {k * F32Step : k \in 0..MaxLossSteps}

\* The float32 nearest to x, ties to the even one: what assigning a float64
\* to the float32 variable min_loss stores.
Round32(x) ==
    LET q == x \div F32Step
        r == x % F32Step
    IN  IF 2 * r < F32Step THEN q * F32Step
        ELSE IF 2 * r > F32Step THEN (q + 1) * F32Step
        ELSE IF q % 2 = 0 THEN q * F32Step ELSE (q + 1) * F32Step

ImprovesOrTies(m, c) == m >= c

\* if min_loss.eval() > current_loss
Improves(m, c) == m > c

SaveCheckpointWithoutMinLoss(p, m) == [exists |-> TRUE, params |-> p, min_loss |-> Inf]

\* saver.save: the parameters and min_loss of the session, as they are now.
SaveCheckpoint(p, m) == [exists |-> TRUE, params |-> p, min_loss |-> m]

\* One iteration with per-example loss `loss`; raises tells whether the call
\* of generate_sentence raises, if the iteration makes one.  The sentence it prints
\* does not feed back into the loop: generated records that one was printed.
TrainIteration(loss, raises) ==
    LET counted == batch_counter + 1
        total == total_loss + loss
        evaluate == counted >= BATCH_SIZE
        mean == total \div BATCH_SIZE
        improved == evaluate /\ Improves(min_loss, mean)
        periodic == evaluate /\ ~improved
                       /\ offset % GENERATE_INCREMENT = GENERATE_INCREMENT - 1
        raised == (improved \/ periodic) /\ raises
    IN  /\ params' = params + 1
        /\ batch_counter' = IF evaluate THEN 0 ELSE counted
        /\ current_loss' = IF evaluate THEN mean ELSE current_loss
        /\ min_loss' = IF improved THEN Round32(mean) ELSE min_loss
        /\ ckpt' = IF improved THEN SaveCheckpoint(params', min_loss') ELSE ckpt
        /\ final_ckpt' = IF periodic THEN SaveCheckpoint(params', min_loss') ELSE final_ckpt
        /\ saved' = improved
        /\ final_saved' = periodic
        /\ generated' = ((improved \/ periodic) /\ ~raised)
        /\ total_loss' = IF evaluate /\ ~raised THEN 0 ELSE total
        /\ IF raised
           THEN pc' = "fatal" /\ UNCHANGED <<epoch, offset>>
           ELSE IF offset + 1 < num_examples
           THEN pc' = "train" /\ offset' = offset + 1 /\ UNCHANGED epoch
           ELSE IF epoch + 1 < EPOCHS
           THEN pc' = "train" /\ offset' = 0 /\ epoch' = epoch + 1
           ELSE pc' = "done" /\ UNCHANGED <<epoch, offset>>

\* Whether the iteration with this loss reaches a call of generate_sentence.
Generates(loss) ==
    /\ batch_counter + 1 >= BATCH_SIZE
    /\ \/ Improves(min_loss, (total_loss + loss) \div BATCH_SIZE)
       \/ offset % GENERATE_INCREMENT = GENERATE_INCREMENT - 1

\* How a call of generate_sentence can end, over every random key and every
\* sequence of network outputs: FALSE when it returns, TRUE when it raises.
GenerateOutcomes ==
    {generate_sentence(rk, preds).raised :
        rk \in RandomKeys, preds \in [1..sentence_length -> Predictions]}

\* The example at the current offset can be built: the N_INPUT words of the
\* window and the target word have indices, and in embedding mode the
\* target's index has a vector.
ExampleFound ==
    /\ offset + N_INPUT + 1 <= Len(words)
    /\ \A k \in (offset + 1)..(offset + N_INPUT + 1) : DictHas(dictionary, words[k])
    /\ embedding_file.set =>
           DictHas(index_embeddings, DictGet(dictionary, words[offset + N_INPUT + 1]))

TrainStep ==
    /\ pc = "train"
    /\ IF ExampleFound
       THEN \E loss \in LossValues :
               IF Generates(loss)
               THEN \E raises \in GenerateOutcomes : TrainIteration(loss, raises)
               ELSE TrainIteration(loss, FALSE)
       ELSE \* KeyError
            /\ pc' = "fatal"
            /\ UNCHANGED <<sessVars, diskVars, trainVars>>
    /\ UNCHANGED <<inVars, dataVars, vocabVars, embVars, genVars, crashes>>

\* The process is killed: between two iterations, or inside one after the
\* optimizer update, after min_loss is assigned, or after the checkpoint is
\* written.  Only what is on disk survives.
Crash ==
    /\ pc = "train"
    /\ crashes < MaxCrashes
    /\ \/ UNCHANGED <<sessVars, diskVars, batch_counter, total_loss, current_loss>>
       \/ \E loss \in LossValues, point \in {"updated", "assigned", "written"} :
            LET counted == batch_counter + 1
                total == total_loss + loss
                evaluate == counted >= BATCH_SIZE
                mean == total \div BATCH_SIZE
                improved == evaluate /\ Improves(min_loss, mean)
                periodic == evaluate /\ ~improved
                               /\ offset % GENERATE_INCREMENT = GENERATE_INCREMENT - 1
            IN  /\ point = "assigned" => improved
                /\ point = "written" => (improved \/ periodic)
                /\ params' = params + 1
                /\ total_loss' = total
                /\ batch_counter' = IF evaluate /\ point # "updated" THEN 0 ELSE counted
                /\ current_loss' = IF evaluate /\ point # "updated" THEN mean ELSE current_loss
                /\ min_loss' = IF improved /\ point # "updated" THEN Round32(mean) ELSE min_loss
                /\ ckpt' = IF improved /\ point = "written"
                           THEN SaveCheckpoint(params', min_loss') ELSE ckpt
                /\ final_ckpt' = IF periodic /\ point = "written"
                                 THEN SaveCheckpoint(params', min_loss') ELSE final_ckpt
    /\ pc' = "crashed"
    /\ UNCHANGED <<inVars, dataVars, vocabVars, embVars, genVars,
                   epoch, offset, saved, final_saved, generated, crashes>>

\* The program is started again with the same arguments: a new process,
\* with the files as they are.  The killed process's parameters and min_loss
\* stay in params and min_loss until the new session replaces them.
Restart ==
    /\ pc \in {"crashed", "fatal"}
    /\ crashes < MaxCrashes
    /\ crashes' = crashes + 1
    /\ pc' = "read"
    /\ words' = <<>> /\ sentence_length' = 1
    /\ dictionary' = <<>> /\ reverse_dictionary' = <<>>
    /\ start_key' = 0 /\ end_key' = 0
    /\ vocab_size' = 0 /\ num_examples' = 0 /\ num_outputs' = 0
    /\ index_embeddings' = <<>> /\ embeddings_list' = <<>> /\ embedding_order' = <<>>
    /\ batch_counter' = 0 /\ total_loss' = 0 /\ current_loss' = 0
    /\ epoch' = 0 /\ offset' = 0
    /\ saved' = FALSE /\ final_saved' = FALSE /\ generated' = FALSE
    /\ UNCHANGED <<inVars, sessVars, diskVars, genVars>>

\* ------------------------------------------------------------------------
\* build_dataset on arbitrary token lists
\* ------------------------------------------------------------------------

InitBuild ==
    \E ws \in BSeq(BuildTokens, MaxWords) : Fresh(<<>>, NoFile, TRUE, ws, "call")

NextBuild == BuildDataset

SpecBuild == InitBuild /\ [][NextBuild]_vars

\* ------------------------------------------------------------------------
\* Data preparation of run()
\* ------------------------------------------------------------------------

InitData ==
    \E c \in BSeq(FileChars, MaxFileLen), ef \in EmbeddingFiles(2, Vecs) :
        Fresh(c, ef, TRUE, <<>>, "read")

NextData == ReadCorpus \/ BuildVocab \/ LoadEmbeddings

SpecData == InitData /\ [][NextData]_vars


\* ------------------------------------------------------------------------
\* Properties of the vocabulary and the embeddings
\* ------------------------------------------------------------------------

KeyCount(d, key) == Cardinality({k \in 1..Len(d) : d[k][1] = key})

Occurrences(ws, w) == Cardinality({k \in 1..Len(ws) : ws[k] = w})

FirstOccurrence(ws, w) == CHOOSE k \in 1..Len(ws) : ws[k] = w /\ \A j \in 1..(k - 1) : ws[j] # w

\* C4: build_dataset returns a bijection between the distinct tokens of the
\* list and 0 .. (number of distinct tokens) - 1, and reverse_dictionary is
\* the inverse of dictionary.
C4_Bijection ==
    pc = "returned" =>
        LET toks == Range(words)
            n == Cardinality(toks)
        IN  /\ Len(dictionary) = n
            /\ Range(DictKeys(dictionary)) = toks
            /\ Range(DictValues(dictionary)) = 0..(n - 1)
            /\ Len(reverse_dictionary) = n
            /\ \A t \in toks :
                   /\ KeyCount(dictionary, t) = 1
                   /\ KeyCount(reverse_dictionary, DictGet(dictionary, t)) = 1
                   /\ DictGet(reverse_dictionary, DictGet(dictionary, t)) = t
            /\ \A idx \in 0..(n - 1) :
                   /\ KeyCount(reverse_dictionary, idx) = 1
                   /\ DictGet(dictionary, DictGet(reverse_dictionary, idx)) = idx

C4_Witness ==
    /\ pc = "returned"
    /\ Cardinality(Range(words)) = 3
    /\ Len(words) = 4
    /\ words[1] = words[4]

\* C5: a token that occurs more often, or equally often but first, gets the
\* lower index.
C5_FrequencyOrder ==
    pc = "returned" =>
        \A a, b \in Range(words) :
            (a # b /\ (\/ Occurrences(words, a) > Occurrences(words, b)
                       \/ /\ Occurrences(words, a) = Occurrences(words, b)
                          /\ FirstOccurrence(words, a) < FirstOccurrence(words, b)))
            => DictGet(dictionary, a) < DictGet(dictionary, b)

\* A token list with a tie and with a later token that is more frequent:
\* b c c a, where c must get 0, b 1 and a 2.
C5_Witness ==
    /\ pc = "returned"
    /\ words = << <<"b">>, <<"c">>, <<"c">>, <<"a">> >>
    /\ DictGet(dictionary, <<"c">>) = 0
    /\ DictGet(dictionary, <<"b">>) = 1
    /\ DictGet(dictionary, <<"a">>) = 2

\* C6: with embeddings enabled every vocabulary index has exactly one vector
\* in index_embeddings: the table's vector of its word, or the table's
\* UNKNOWN_TOKEN vector when the word is not in the table.
C6_IndexEmbeddingsTotal ==
    (pc = "session" /\ embedding_file.set) =>
        /\ Len(index_embeddings) = vocab_size
        /\ \A idx \in 0..(vocab_size - 1) :
               LET word == DictGet(reverse_dictionary, idx)
                   table == embedding_file.pickle
               IN  /\ KeyCount(index_embeddings, idx) = 1
                   /\ DictGet(index_embeddings, idx) =
                          IF DictHas(table, word) THEN DictGet(table, word)
                          ELSE DictGet(table, UNKNOWN_TOKEN)

\* A vocabulary with a word the table has (under a vector of its own) and a
\* word the table lacks.
C6_Witness ==
    /\ pc = "session"
    /\ embedding_file.set
    /\ DictHas(dictionary, <<"a">>)
    /\ DictHas(dictionary, <<"a", "a">>)
    /\ DictHas(embedding_file.pickle, <<"a">>)
    /\ ~DictHas(embedding_file.pickle, <<"a", "a">>)
    /\ DictGet(index_embeddings, DictGet(dictionary, <<"a">>)) = <<1, 0>>
    /\ DictGet(index_embeddings, DictGet(dictionary, <<"a", "a">>)) = <<0, 1>>

Separators == {" ", "\n"}

\* The tokens of the corpus file: its maximal runs of characters other than
\* space and newline.
CorpusTokens(c) ==
    {SubSeq(c, a, b) : <<a, b>> \in
        {r \in (1..Len(c)) \X (1..Len(c)) :
            /\ r[1] <= r[2]
            /\ \A k \in r[1]..r[2] : c[k] \notin Separators
            /\ (r[1] = 1 \/ c[r[1] - 1] \in Separators)
            /\ (r[2] = Len(c) \/ c[r[2] + 1] \in Separators)}}

HasNonBlankLine(c) == \E k \in 1..Len(c) : c[k] # "\n"

VocabularyBuilt == pc \notin {"read", "build"}

\* C7 as claimed: the vocabulary of a corpus with a non-blank line holds the
\* start, end and unknown markers, once each, and every corpus token.
C7_ThreeMarkers ==
    (VocabularyBuilt /\ HasNonBlankLine(corpus)) =>
        /\ \A m \in {START_TOKEN, END_TOKEN, UNKNOWN_TOKEN} : KeyCount(dictionary, m) = 1
        /\ \A t \in CorpusTokens(corpus) : KeyCount(dictionary, t) = 1

\* C7, amended: the vocabulary of a corpus with a non-blank line holds the
\* start and end markers, once each, and every corpus token; the unknown
\* marker is not put into it.
C7_StartEndMarkers ==
    (VocabularyBuilt /\ HasNonBlankLine(corpus)) =>
        /\ \A m \in {START_TOKEN, END_TOKEN} : KeyCount(dictionary, m) = 1
        /\ \A t \in CorpusTokens(corpus) : KeyCount(dictionary, t) = 1
        /\ Range(DictValues(dictionary)) = 0..(Len(dictionary) - 1)

C7_Witness ==
    /\ pc = "session"
    /\ CorpusTokens(corpus) = {<<"a">>, <<"a", "a">>}
    /\ KeyCount(dictionary, START_TOKEN) = 1
    /\ KeyCount(dictionary, END_TOKEN) = 1
    /\ KeyCount(dictionary, UNKNOWN_TOKEN) = 0


\* ------------------------------------------------------------------------
\* run() in test mode: data preparation, session, one generate_sentence()
\* ------------------------------------------------------------------------

GenCorpora ==
    { <<"a", "\n">>,
      <<"a", "\n", "a", "a", "\n">> }

InitGen ==
    \E c \in GenCorpora, ef \in EmbeddingFiles(3, TableVecs) : Fresh(c, ef, TRUE, <<>>, "read")

NextGen ==
    \/ ReadCorpus \/ BuildVocab \/ LoadEmbeddings \/ StartSession
    \/ GenSeed \/ GenRand \/ GenStep \/ GenPrint

\* The interpreter keeps running the decoding loop and the code after it.
SpecGen == InitGen /\ [][NextGen]_vars /\ WF_vars(GenStep) /\ WF_vars(GenPrint)

Decoding == pc \in {"gen_loop", "gen_print", "done"} \/ (pc = "fatal" /\ i > 0)

C3_Bounded ==
    Decoding =>
        /\ i <= sentence_length
        /\ pc = "gen_loop" => i < sentence_length
        /\ Len(symbols_in_keys) <= N_INPUT + i
        /\ Len(symbols_in_keys) <= N_INPUT + sentence_length
        /\ \A k \in (N_INPUT + 1)..Len(symbols_in_keys) : symbols_in_keys[k] # end_key
        /\ (i > 0 /\ pc # "fatal" /\ pred_index = end_key) => pc \in {"gen_print", "done"}

\* C3: the decoding loop makes at most sentence_length passes, the index
\* list never grows beyond N_INPUT + sentence_length, the end marker stops
\* the loop without being appended, and the loop, once entered, is left.
C3_Terminates ==
    /\ []C3_Bounded
    /\ (pc = "gen_loop") ~> (pc \in {"done", "fatal"})

\* The end marker is never predicted and the loop runs to the maximum length.
C3_Witness ==
    /\ pc = "done"
    /\ sentence_length = 2
    /\ i = sentence_length
    /\ Len(symbols_in_keys) = N_INPUT + sentence_length

\* C8: in embedding mode a pass of the decoding loop looks up a row number
\* of embeddings_list, the row nearest to the predicted vector, and appends
\* the word index embedding_order gives for it.
C8_NearestNeighbour ==
    (Decoding /\ embedding_file.set /\ i > 0 /\ Len(embeddings_list) > 0) =>
        /\ embedding_index \in 0..(Len(embeddings_list) - 1)
        /\ DictHas(embedding_order, embedding_index)
        /\ LET d == NormAxis1(embeddings_list, pred_output)
           IN  \A row \in 1..Len(embeddings_list) : d[embedding_index + 1] <= d[row]
        /\ pred_index = DictGet(embedding_order, embedding_index)


\* ------------------------------------------------------------------------
\* run() in training mode, killed and restarted
\* ------------------------------------------------------------------------

\* One line of one word (3 training examples) or of two (4 examples).
TrainCorpora ==
    { <<"a", "\n">>,
      <<"a", " ", "\n">> }

\* No embeddings, or a table with the unknown vector and one corpus word.
TrainEmbeddingFiles ==
    { NoFile,
      [set |-> TRUE, pickle |-> << <<UNKNOWN_TOKEN, <<1, 1>> >>, << <<"a">>, <<0, 0>> >> >>] }

InitTrain ==
    \E c \in TrainCorpora, ef \in TrainEmbeddingFiles : Fresh(c, ef, FALSE, <<>>, "read")

NextTrain ==
    \/ ReadCorpus \/ BuildVocab \/ LoadEmbeddings \/ StartSession
    \/ TrainStep \/ Crash \/ Restart

SpecTrain == InitTrain /\ [][NextTrain]_vars


\* A loop iteration that ran to its end (or died in generate_sentence).
Iteration == pc = "train" /\ pc' # "crashed"

\* C1 as claimed: an iteration writes a checkpoint of any kind exactly when
\* it computes a mean loss and that mean is below min_loss.
C1_NoOtherCheckpoint ==
    [][Iteration =>
          ((saved' \/ final_saved') <=>
              (batch_counter + 1 >= BATCH_SIZE /\ min_loss > current_loss'))]_vars

\* C1, amended: an iteration writes the checkpoint at save_model_path exactly
\* when it computes a mean loss and that mean is strictly below min_loss; the
\* only other write is of the checkpoint at final_model_path, at an
\* evaluation whose mean is not below min_loss and whose offset is the last
\* of a GENERATE_INCREMENT block.
C1_SaveIffImproved ==
    [][Iteration =>
          LET evaluate == batch_counter + 1 >= BATCH_SIZE
              improved == evaluate /\ min_loss > current_loss'
          IN  /\ saved' <=> improved
              /\ saved' => ckpt' = [exists |-> TRUE, params |-> params', min_loss |-> min_loss']
              /\ ~saved' => ckpt' = ckpt
              /\ final_saved' =>
                    /\ evaluate /\ ~improved
                    /\ offset % GENERATE_INCREMENT = GENERATE_INCREMENT - 1
              /\ ~final_saved' => final_ckpt' = final_ckpt]_vars

\* An evaluation whose mean equals min_loss: nothing is written.
C1_Witness ==
    /\ pc = "train"
    /\ params > 0
    /\ batch_counter = 0
    /\ current_loss = min_loss
    /\ ~saved /\ ~final_saved

IsNearestFloat32(v, x) ==
    /\ v % F32Step = 0
    /\ 2 * (IF v >= x THEN v - x ELSE x - v) <= F32Step

StartsAtRestoredValue ==
    pc = "session" => min_loss' = IF ckpt.exists THEN ckpt.min_loss ELSE Inf

\* C2 as claimed: min_loss starts at +infinity or the restored value, never
\* increases, changes only in an iteration that saves the checkpoint at
\* save_model_path, and there strictly decreases to the mean just computed
\* (as a float32), which is also the value the checkpoint holds.
C2_StrictlyDecreasesToMean ==
    [][/\ StartsAtRestoredValue
       /\ Iteration =>
            /\ min_loss' <= min_loss
            /\ min_loss' # min_loss => saved'
            /\ saved' => /\ min_loss' < min_loss
                         /\ IsNearestFloat32(min_loss', current_loss')
                         /\ ckpt'.min_loss = min_loss']_vars

\* C2, amended: as claimed, except that in a saving iteration min_loss
\* becomes the float32 nearest to the mean just computed (which is strictly
\* below the old min_loss), so that it decreases or keeps its value.
C2_DecreasesToRoundedMean ==
    [][/\ StartsAtRestoredValue
       /\ Iteration =>
            /\ min_loss' <= min_loss
            /\ min_loss' # min_loss => saved'
            /\ saved' => /\ current_loss' < min_loss
                         /\ IsNearestFloat32(min_loss', current_loss')
                         /\ ckpt'.min_loss = min_loss']_vars

\* A checkpoint was just saved and the stored minimum is above the mean that
\* earned it.
C2_Witness ==
    /\ pc = "train"
    /\ saved
    /\ ckpt.exists
    /\ ckpt.min_loss = min_loss
    /\ current_loss < min_loss

Resuming == pc = "session" /\ pc' = "train"

\* C9 as claimed: the parameters a restarted process resumes from are those
\* of the killed process, less at most the update of the iteration in
\* progress.
C9_LosesOneUpdate ==
    [][(Resuming /\ crashes > 0) => (params' <= params /\ params - params' <= 1)]_vars

PersistedState ==
    pc = "train" =>
        /\ ckpt.exists => (ckpt.min_loss = min_loss /\ ckpt.params <= params)
        /\ ~ckpt.exists => min_loss = Inf

\* C9, amended: a restarted process resumes from the checkpoint last saved
\* at save_model_path (the parameters and min_loss of the last improving
\* evaluation), or from a fresh initialisation when there is none, with the
\* loop back at epoch 0, offset 0 and empty accumulators: every update made
\* since that checkpoint is lost, while min_loss between iterations is
\* always the persisted one.
C9_ResumesFromCheckpoint ==
    /\ []PersistedState
    /\ [][Resuming =>
            /\ params' = (IF ckpt.exists THEN ckpt.params ELSE 0)
            /\ min_loss' = (IF ckpt.exists THEN ckpt.min_loss ELSE Inf)
            /\ params' <= params
            /\ batch_counter' = 0 /\ total_loss' = 0
            /\ epoch' = 0 /\ offset' = 0]_vars

\* A restarted process back in the loop with the checkpoint's state, the
\* checkpoint being the one of the first evaluation.
C9_Witness ==
    /\ pc = "train"
    /\ crashes = 1
    /\ ckpt.exists
    /\ ckpt.params = BATCH_SIZE
    /\ params = ckpt.params
    /\ min_loss = ckpt.min_loss
    /\ epoch = 0 /\ offset = 0 /\ batch_counter = 0 /\ total_loss = 0

\* C10: every evaluation ends in one of three ways: the mean improves and
\* only the checkpoint at save_model_path is written; it does not, the offset
\* is the last of a GENERATE_INCREMENT block and only the checkpoint at
\* final_model_path is written; or nothing is written.  A sample is printed
\* in the first two and not in the third, and batch_counter and total_loss
\* are 0 afterwards.
C10_ThreeOutcomes ==
    [][(Iteration /\ batch_counter + 1 >= BATCH_SIZE) =>
          LET improved == min_loss > current_loss'
              periodic == offset % GENERATE_INCREMENT = GENERATE_INCREMENT - 1
          IN  /\ batch_counter' = 0
              /\ total_loss' = 0
              /\ improved =>
                    /\ saved' /\ ~final_saved' /\ generated'
                    /\ final_ckpt' = final_ckpt
              /\ (~improved /\ periodic) =>
                    /\ ~saved' /\ final_saved' /\ generated'
                    /\ min_loss' = min_loss /\ ckpt' = ckpt
              /\ (~improved /\ ~periodic) =>
                    /\ ~saved' /\ ~final_saved' /\ ~generated'
                    /\ min_loss' = min_loss /\ ckpt' = ckpt /\ final_ckpt' = final_ckpt]_vars

=============================================================================
